---------------------------- MODULE Spec2Model ----------------------------
(***************************************************************************)
(* A model of tomlfuse: the comment harvester (src/src/comments.rs), the   *)
(* field collection (src/src/field.rs), the block build                    *)
(* (src/src/module.rs) and the identifier helpers (src/src/utils.rs).      *)
(*                                                                         *)
(* A Rust string is modelled as a sequence of one-character strings, so    *)
(* that split, trim, replace, find and glob matching are computed the way  *)
(* the code computes them.  An Option is a sequence of length at most one: *)
(* None is << >> and Some(x) is << x >>.                                   *)
(***************************************************************************)
EXTENDS Integers, Sequences, FiniteSets, TLC

VARIABLES
    \* ---- one block of the selection language over one document ----
    pc,              \* position of the generation pass
    toml,            \* RootModule.toml: the decoded document
    source,          \* RootModule.source: the parsed block (aliases in the
                     \* iteration order of the HashMap)
    fields,          \* RootModule.fields.fields
    tokens,          \* the token stream RootModule::to_tokens produced
    \* ---- the comment harvester ----
    hpc,             \* position of extract_comments
    lines,           \* content.lines()
    line_no,         \* number of lines the loop has consumed
    string_state,    \* StringState
    current_comments,\* pending comment lines
    current_path,    \* segments of the last header
    comments,        \* the map under construction
    \* ---- one call of a helper function ----
    call,            \* the function called and its argument
    ret              \* what the call returned, None while it runs

vars == << pc, toml, source, fields, tokens,
           hpc, lines, line_no, string_state, current_comments,
           current_path, comments, call, ret >>

util_vars == << call, ret >>

field_vars == << pc, toml, source, fields, tokens >>

harvest_vars == << hpc, lines, line_no, string_state, current_comments,
                   current_path, comments >>

----------------------------------------------------------------------------
(* Strings                                                                 *)

None == << >>

Some(x) == << x >>

\* ROOT: the empty string used as the root sentinel
ROOT == << >>

\* str::replace(from, to) for one-character patterns
Replace(s, from, to) ==
    [i \in 1..Len(s) |-> IF s[i] = from THEN to ELSE s[i]]

\* str::starts_with
StartsWith(s, p) ==
    /\ Len(p) <= Len(s)
    /\ SubSeq(s, 1, Len(p)) = p

\* str::contains
Contains(s, p) ==
    \E i \in 1..(Len(s) - Len(p) + 1) : SubSeq(s, i, i + Len(p) - 1) = p

\* str::find(char): Some(position, counted from 1) of the first occurrence
Find(s, c) ==
    IF \E i \in 1..Len(s) : s[i] = c
    THEN Some(CHOOSE i \in 1..Len(s) :
                 /\ s[i] = c
                 /\ \A j \in 1..(i - 1) : s[j] # c)
    ELSE None

\* str::split(char): "a..b" gives "a", "", "b"; "" gives one empty piece
RECURSIVE Split(_, _)
Split(s, c) ==
    LET at == Find(s, c)
    IN  IF at = None
        THEN << s >>
        ELSE << SubSeq(s, 1, at[1] - 1) >>
             \o Split(SubSeq(s, at[1] + 1, Len(s)), c)

\* [String]::join(sep)
RECURSIVE Join(_, _)
Join(parts, sep) ==
    IF parts = << >> THEN << >>
    ELSE IF Len(parts) = 1 THEN parts[1]
    ELSE parts[1] \o sep \o Join(Tail(parts), sep)

\* str::trim_start_matches(char)
RECURSIVE TrimStartMatches(_, _)
TrimStartMatches(s, c) ==
    IF s # << >> /\ Head(s) = c THEN TrimStartMatches(Tail(s), c) ELSE s

\* str::trim_end_matches(char)
RECURSIVE TrimEndMatches(_, _)
TrimEndMatches(s, c) ==
    IF s # << >> /\ s[Len(s)] = c
    THEN TrimEndMatches(SubSeq(s, 1, Len(s) - 1), c)
    ELSE s

\* the white space str::trim removes, as far as the documents use it
IsSpace(c) == c \in {" ", "\t"}

\* str::trim
RECURSIVE Trim(_)
Trim(s) ==
    IF s # << >> /\ IsSpace(Head(s)) THEN Trim(Tail(s))
    ELSE IF s # << >> /\ IsSpace(s[Len(s)])
         THEN Trim(SubSeq(s, 1, Len(s) - 1))
         ELSE s

\* the letters of the documents and their upper-case forms
LowerLetters == << "a", "b", "c", "d", "h", "j", "k", "n", "t", "x", "y" >>

UpperLetters == << "A", "B", "C", "D", "H", "J", "K", "N", "T", "X", "Y" >>

\* char::to_uppercase
UpperChar(c) ==
    IF \E i \in 1..Len(LowerLetters) : LowerLetters[i] = c
    THEN UpperLetters[CHOOSE i \in 1..Len(LowerLetters) : LowerLetters[i] = c]
    ELSE c

\* char::to_lowercase
LowerChar(c) ==
    IF \E i \in 1..Len(UpperLetters) : UpperLetters[i] = c
    THEN LowerLetters[CHOOSE i \in 1..Len(UpperLetters) : UpperLetters[i] = c]
    ELSE c

\* str::to_uppercase
to_uppercase(s) == [i \in 1..Len(s) |-> UpperChar(s[i])]

\* str::to_lowercase
to_lowercase(s) == [i \in 1..Len(s) |-> LowerChar(s[i])]

----------------------------------------------------------------------------
(* src/src/utils.rs                                                        *)

\* kebab_to_snake: every dash becomes an underscore
kebab_to_snake(input) == Replace(input, "-", "_")

\* snake_to_kebab: every underscore becomes a dash
snake_to_kebab(input) == Replace(input, "_", "-")

\* to_valid_ident: all leading and all trailing double quotes are trimmed,
\* the empty rest is ROOT, dashes become underscores
to_valid_ident(input) ==
    LET i == TrimEndMatches(TrimStartMatches(input, "\""), "\"")
    IN  IF i = << >> THEN ROOT ELSE kebab_to_snake(i)


\* the decimal digits of a natural number
RECURSIVE Digits(_)
Digits(n) ==
    LET digit == << "0", "1", "2", "3", "4", "5", "6", "7", "8", "9" >>
    IN  IF n < 10 THEN << digit[n + 1] >>
        ELSE Digits(n \div 10) \o << digit[(n % 10) + 1] >>

\* the characters of a word
Chars(word) ==
    CASE word = "String" -> << "S", "t", "r", "i", "n", "g" >>
      [] word = "Integer" -> << "I", "n", "t", "e", "g", "e", "r" >>
      [] word = "Boolean" -> << "B", "o", "o", "l", "e", "a", "n" >>
      [] word = "Array" -> << "A", "r", "r", "a", "y" >>
      [] word = "true" -> << "t", "r", "u", "e" >>
      [] word = "false" -> << "f", "a", "l", "s", "e" >>

\* format!("{:?}", ..) of a value and of a vector of values
RECURSIVE DebugValue(_)
RECURSIVE DebugVec(_)
DebugValue(value) ==
    Chars(value.tag) \o << "(" >>
    \o (CASE value.tag = "String" -> << "\"" >> \o value.v \o << "\"" >>
          [] value.tag = "Integer" -> Digits(value.v)
          [] value.tag = "Boolean" ->
                IF value.v THEN Chars("true") ELSE Chars("false")
          [] value.tag = "Array" -> DebugVec(value.v))
    \o << ")" >>

DebugVec(arr) ==
    << "[" >>
    \o Join([i \in 1..Len(arr) |-> DebugValue(arr[i])], << ",", " " >>)
    \o << "]" >>

\* the type tokens &'static str, i64, bool and &'static [ty]
StrTy == << "&", "'", "s", "t", "a", "t", "i", "c", " ", "s", "t", "r" >>

I64Ty == << "i", "6", "4" >>

BoolTy == << "b", "o", "o", "l" >>

SliceOf(ty) ==
    << "&", "'", "s", "t", "a", "t", "i", "c", " ", "[" >> \o ty \o << "]" >>

\* the string literal token of a string: quotes and backslashes escaped
RECURSIVE Escape(_)
Escape(chars) ==
    IF chars = << >> THEN << >>
    ELSE (IF Head(chars) \in { "\"", "\\" }
          THEN << "\\", Head(chars) >> ELSE << Head(chars) >>)
         \o Escape(Tail(chars))

StrLit(chars) == << "\"" >> \o Escape(chars) \o << "\"" >>

\* the literal token &[e1, e2, ..]
ListOf(elems) == << "&", "[" >> \o Join(elems, << ",", " " >>) \o << "]" >>

\* a conversion that takes every non-empty array for a homogeneous one
RECURSIVE convert_value_to_tokens_unchecked(_)
convert_value_to_tokens_unchecked(value) ==
    CASE value.tag = "String"  -> << StrTy, StrLit(value.v) >>
      [] value.tag = "Integer" -> << I64Ty, Digits(value.v) \o I64Ty >>
      [] value.tag = "Boolean" ->
            << BoolTy, IF value.v THEN Chars("true") ELSE Chars("false") >>
      [] value.tag = "Array" ->
            LET arr == value.v
            IN  IF arr = << >>
                THEN << SliceOf(StrTy), ListOf(<< >>) >>
                ELSE << SliceOf(convert_value_to_tokens_unchecked(arr[1])[1]),
                        ListOf([i \in 1..Len(arr) |->
                                  convert_value_to_tokens_unchecked(arr[i])[2]]) >>

\* convert_value_to_tokens: the type and the literal of a leaf value
RECURSIVE convert_value_to_tokens(_)
convert_value_to_tokens(value) ==
    CASE value.tag = "String"  -> << StrTy, StrLit(value.v) >>
      [] value.tag = "Integer" -> << I64Ty, Digits(value.v) \o I64Ty >>
      [] value.tag = "Boolean" ->
            << BoolTy, IF value.v THEN Chars("true") ELSE Chars("false") >>
      [] value.tag = "Array" ->
            LET arr == value.v
            IN  IF arr = << >>
                THEN << SliceOf(StrTy), ListOf(<< >>) >>
                ELSE LET elem_ty == convert_value_to_tokens(arr[1])[1]
                         same_type == \A i \in 1..Len(arr) :
                                         arr[i].tag = arr[1].tag
                     IN  IF same_type
                         THEN << SliceOf(elem_ty),
                                 ListOf([i \in 1..Len(arr) |->
                                           convert_value_to_tokens(arr[i])[2]]) >>
                         ELSE << StrTy, StrLit(DebugVec(arr)) >>

\* get_doc_comment: no attribute for a missing or empty comment
get_doc_comment(field) ==
    LET comment == IF field.comment = None THEN << >> ELSE field.comment[1]
    IN  IF comment = << >> THEN None ELSE Some(comment)

----------------------------------------------------------------------------
(* src/src/pattern.rs                                                      *)

\* PatternSegment
Ident(name) == [seg |-> "Ident", ident |-> name]

Star == [seg |-> "Star", ident |-> << >>]

DoubleStar == [seg |-> "DoubleStar", ident |-> << >>]

Negation == [seg |-> "Negation", ident |-> << >>]

\* impl Display for PatternSegment
SegmentToString(segment) ==
    CASE segment.seg = "Ident"      -> segment.ident
      [] segment.seg = "Star"       -> << "*" >>
      [] segment.seg = "DoubleStar" -> << "*", "*" >>
      [] segment.seg = "Negation"   -> << "!" >>

\* impl Display for Pattern: the segments joined by "."
PatternToString(pattern) ==
    Join([i \in 1..Len(pattern) |-> SegmentToString(pattern[i])], << "." >>)

\* The parse stream: a sequence of tokens, each the text of an identifier
\* or one punctuation character.
IsPunct(token) == token \in { << "*" >>, << "." >>, << "!" >>, << "-" >> }

\* input.peek(Token![..])
Peek(input, punct) == input # << >> /\ Head(input) = punct

\* the result of a parse: the value and the rest of the stream, or the
\* syntax error
Parsed(value, rest) == [ok |-> TRUE, value |-> value, rest |-> rest]

SynError(input) == [ok |-> FALSE, value |-> << >>, rest |-> input]

\* input.parse::<Ident>()
Ident_parse(input) ==
    IF input # << >> /\ ~ IsPunct(Head(input))
    THEN Parsed(Head(input), Tail(input))
    ELSE SynError(input)

\* the loop of the identifier arm with the dash kept between the parts
RECURSIVE fuse_idents_keeping_dash(_, _)
fuse_idents_keeping_dash(combined, input) ==
    IF Peek(input, << "-" >>)
    THEN LET next_ident == Ident_parse(Tail(input))
         IN  IF next_ident.ok
             THEN fuse_idents_keeping_dash(
                      combined \o << "-" >> \o next_ident.value,
                      next_ident.rest)
             ELSE SynError(next_ident.rest)
    ELSE Parsed(Ident(combined), input)

\* the loop of the identifier arm: while a dash follows, consume it, parse
\* the next identifier and append it after an underscore
RECURSIVE fuse_idents(_, _)
fuse_idents(combined, input) ==
    IF Peek(input, << "-" >>)
    THEN LET next_ident == Ident_parse(Tail(input))
         IN  IF next_ident.ok
             THEN fuse_idents(combined \o << "_" >> \o next_ident.value,
                              next_ident.rest)
             ELSE SynError(next_ident.rest)
    ELSE Parsed(Ident(combined), input)

\* impl Parse for PatternSegment
PatternSegment_parse(input) ==
    IF Peek(input, << "*" >>)
    THEN IF Peek(Tail(input), << "*" >>)
         THEN Parsed(DoubleStar, Tail(Tail(input)))
         ELSE Parsed(Star, Tail(input))
    ELSE IF Peek(input, << "!" >>)
         THEN Parsed(Negation, Tail(input))
         ELSE LET ident == Ident_parse(input)
              IN  IF ident.ok THEN fuse_idents(ident.value, ident.rest)
                  ELSE SynError(input)

\* the loop of Pattern::parse: while a "." follows, consume it and parse
\* the next segment
RECURSIVE more_segments(_, _)
more_segments(segments, input) ==
    IF Peek(input, << "." >>)
    THEN LET segment == PatternSegment_parse(Tail(input))
         IN  IF segment.ok
             THEN more_segments(Append(segments, segment.value), segment.rest)
             ELSE SynError(segment.rest)
    ELSE Parsed(segments, input)

\* impl Parse for Pattern
Pattern_parse(input) ==
    IF input = << >> THEN SynError(input)
    ELSE LET segment == PatternSegment_parse(input)
         IN  IF segment.ok
             THEN more_segments(<< segment.value >>, segment.rest)
             ELSE SynError(segment.rest)

----------------------------------------------------------------------------
(* The decoded document (toml::Value).  A table is the sequence of its     *)
(* leaves in the decoder's iteration order, each with its path of keys     *)
(* below the table; an empty table is an entry whose value is a table.     *)

Table(entries) == [tag |-> "Table", v |-> entries]

Integer(n) == [tag |-> "Integer", v |-> n]

\* TomlField::is_table
is_table(field) == field.value.tag = "Table"

\* the value of the child `key` of a table
Child(table, key) ==
    LET below == SelectSeq(table.v, LAMBDA e : Head(e.path) = key)
    IN  IF Len(below[1].path) = 1
        THEN below[1].value
        ELSE Table([i \in 1..Len(below) |->
                       [below[i] EXCEPT !.path = Tail(below[i].path)]])

\* table.iter(): the keys of a table, each once, in iteration order
TableKeys(table) ==
    LET first == SelectSeq([i \in 1..Len(table.v) |-> i],
                     LAMBDA i : \A j \in 1..(i - 1) :
                                   Head(table.v[j].path) # Head(table.v[i].path))
    IN  [n \in 1..Len(first) |-> Head(table.v[first[n]].path)]

----------------------------------------------------------------------------
(* src/src/field.rs                                                        *)

\* TomlField::new
TomlField_new(name, path, value, parent) ==
    [name |-> name, value |-> value, path |-> path, relative_path |-> None,
     toml_path |-> None, alias |-> None, parent |-> parent, comment |-> None]

\* TomlField::root
TomlField_root(value) ==
    [name |-> ROOT, value |-> value, path |-> ROOT, relative_path |-> None,
     toml_path |-> None, alias |-> None, parent |-> None, comment |-> None]

\* TomlField::with_alias: the ROOT alias is ignored
with_alias(field, alias) ==
    IF alias = ROOT THEN field ELSE [field EXCEPT !.alias = Some(alias)]

\* TomlField::with_toml_path
with_toml_path(field, toml_path) ==
    [field EXCEPT !.toml_path = Some(toml_path)]

\* the non-empty pieces of a dotted path
Segments(path) == SelectSeq(Split(path, "."), LAMBDA seg : seg # << >>)

\* TomlField::effective_module_path: the relative path if there is one,
\* else the path, split on "." without the empty pieces
effective_module_path(field) ==
    IF field.relative_path # None
    THEN Segments(field.relative_path[1])
    ELSE Segments(field.path)

\* the glob matcher on one compiled pattern: a literal character matches
\* itself and "*" matches any run of characters, dots included
RECURSIVE GlobMatch(_, _)
GlobMatch(glob, text) ==
    IF glob = << >> THEN text = << >>
    ELSE IF Head(glob) = "*"
         THEN \/ GlobMatch(Tail(glob), text)
              \/ text # << >> /\ GlobMatch(glob, Tail(text))
         ELSE /\ text # << >>
              /\ Head(text) = Head(glob)
              /\ GlobMatch(Tail(glob), Tail(text))

\* GlobSet::is_match: some pattern of the set matches
is_match(globset, text) ==
    \E i \in 1..Len(globset) : GlobMatch(globset[i], text)

\* TomlFields::new
TomlFields_new ==
    [root_value |-> None, fields |-> << >>,
     patterns |-> [inclusions |-> None, exclusions |-> None, literals |-> << >>],
     aliases |-> None, comments |-> None]

\* the alias lookup of extract_matched_paths_from_value: the first binding,
\* in the map's iteration order, whose source is the path or the normalised
\* path
find_alias(self, _path) ==
    IF self.aliases = None THEN None
    ELSE LET aliases == self.aliases[1]
             _processed_path == to_valid_ident(_path)
             hit(i) == \/ _path = PatternToString(aliases[i].orig)
                       \/ _processed_path = PatternToString(aliases[i].orig)
         IN  IF \E i \in 1..Len(aliases) : hit(i)
             THEN LET i == CHOOSE i \in 1..Len(aliases) :
                              hit(i) /\ \A j \in 1..(i - 1) : ~hit(j)
                  IN  Some(<< PatternToString(aliases[i].alias),
                              PatternToString(aliases[i].orig) >>)
             ELSE None

\* the skip decision of extract_matched_paths_from_value for a leaf
skip_leaf(self, path) ==
    ~ (\/ path = ROOT
       \/ /\ \/ self.patterns.inclusions = None
             \/ is_match(self.patterns.inclusions[1], path)
          /\ \/ self.patterns.exclusions = None
             \/ ~ is_match(self.patterns.exclusions[1], path))

\* the leaf arm without the collapse: an aliased leaf that would be skipped
\* is kept under its whole rewritten path
push_leaf_keeping_path(self, field, is_alias, skip) ==
    IF is_alias \/ ~ skip
    THEN [self EXCEPT !.fields = Append(self.fields, field)]
    ELSE self

\* the leaf arm of extract_matched_paths_from_value: an aliased leaf that
\* would be skipped is kept with its path collapsed to its name; any other
\* leaf is pushed unless it is skipped
push_leaf(self, field, is_alias, skip) ==
    IF is_alias /\ skip
    THEN [self EXCEPT !.fields =
             Append(self.fields, [field EXCEPT !.path = field.name])]
    ELSE IF ~ skip
         THEN [self EXCEPT !.fields = Append(self.fields, field)]
         ELSE self

\* TomlFields::extract_matched_paths_from_value and its loop over the
\* entries of a table; both return the collection with the fields pushed
RECURSIVE extract_matched_paths_from_value(_, _, _, _)
RECURSIVE extract_table_entries(_, _, _, _, _)
extract_matched_paths_from_value(self, value, _path, parent_idx) ==
    LET orig_path == _path
        alias == find_alias(self, _path)
        alias_name == IF alias # None /\ alias[1][1] # << "*" >>
                      THEN Some(alias[1][1]) ELSE None
        is_alias == alias # None
        aliased_path ==
            IF alias # None
            THEN LET _psvec == Split(_path, ".")
                     _ps == Join(SubSeq(_psvec, 1, Len(_psvec) - 1), << "." >>)
                 IN  _ps \o << "." >> \o alias[1][1]
            ELSE _path
        path == to_valid_ident(aliased_path)
        is_root == parent_idx = 0 /\ self.fields = << >>
        field == IF is_root
                 THEN TomlField_root(value)
                 ELSE with_toml_path(
                          with_alias(
                              TomlField_new(Split(path, ".")[Len(Split(path, "."))],
                                            path, value, Some(parent_idx)),
                              IF alias_name # None THEN alias_name[1] ELSE ROOT),
                          orig_path)
        field_idx == IF is_root THEN 0 ELSE Len(self.fields)
    IN  IF value.tag = "Table"
        THEN extract_table_entries(
                 [self EXCEPT !.fields = Append(self.fields, field)],
                 value, TableKeys(value), path, field_idx)
        ELSE push_leaf(self, field, is_alias, skip_leaf(self, path))

\* the loop over the entries with every entry filed under the root
RECURSIVE extract_table_entries_under_root(_, _, _, _, _)
extract_table_entries_under_root(self, table, keys, path, field_idx) ==
    IF keys = << >> THEN self
    ELSE LET key == Head(keys)
             new_path == IF path = << >> THEN key ELSE path \o << "." >> \o key
         IN  extract_table_entries_under_root(
                 extract_matched_paths_from_value(
                     self, Child(table, key), new_path, 0),
                 table, Tail(keys), path, field_idx)

extract_table_entries(self, table, keys, path, field_idx) ==
    IF keys = << >> THEN self
    ELSE LET key == Head(keys)
             new_path == IF path = << >> THEN key ELSE path \o << "." >> \o key
         IN  extract_table_entries(
                 extract_matched_paths_from_value(
                     self, Child(table, key), new_path, field_idx),
                 table, Tail(keys), path, field_idx)

\* TomlFields::get_relative_path: for each literal that is not a negation,
\* the path without the segments the literal names; the first strictly
\* shortest residue wins; None when no literal is an inclusion
RECURSIVE best_relative_path(_, _, _)
best_relative_path(literals, path, best_match) ==
    IF literals = << >> THEN best_match
    ELSE LET pat == Head(literals)
         IN  IF StartsWith(pat, << "!" >>)
             THEN best_relative_path(Tail(literals), path, best_match)
             ELSE LET pat_segs == SelectSeq(Split(pat, "."),
                                     LAMBDA seg : seg # << >>)
                      path_segs ==
                          SelectSeq(Split(path, "."),
                              LAMBDA seg :
                                  /\ seg # << >>
                                  /\ ~ \E i \in 1..Len(pat_segs) : pat_segs[i] = seg)
                      rel_path == Join(path_segs, << "." >>)
                  IN  best_relative_path(
                          Tail(literals), path,
                          IF best_match = None \/ Len(best_match[1]) > Len(rel_path)
                          THEN Some(rel_path) ELSE best_match)

\* a relative path that keeps the segments the patterns name
get_relative_path_keeping_prefix(self, path) ==
    IF \E n \in 1..Len(self.patterns.literals) :
           ~ StartsWith(self.patterns.literals[n], << "!" >>)
    THEN Some(path) ELSE None

get_relative_path(self, path) ==
    best_relative_path(self.patterns.literals, path, None)

\* TomlFields::get_field
get_field(self, idx) ==
    IF idx + 1 \in 1..Len(self.fields) THEN Some(self.fields[idx + 1]) ELSE None

\* TomlFields::get_by_name: the first field of that name
get_by_name(self, name) ==
    IF \E i \in 1..Len(self.fields) : self.fields[i].name = name
    THEN Some(self.fields[CHOOSE i \in 1..Len(self.fields) :
                  /\ self.fields[i].name = name
                  /\ \A j \in 1..(i - 1) : self.fields[j].name # name])
    ELSE None

\* TomlFields::index_of: the position (from 0) of the first equal field
index_of(self, field) ==
    IF \E i \in 1..Len(self.fields) : self.fields[i] = field
    THEN Some((CHOOSE i \in 1..Len(self.fields) :
                  /\ self.fields[i] = field
                  /\ \A j \in 1..(i - 1) : self.fields[j] # field) - 1)
    ELSE None

\* the name get_relative_parent_of_field looks up: the second-to-last
\* segment of the effective module path, or ROOT
relative_parent_name(this_field) ==
    LET _effective_path == effective_module_path(this_field)
        effective_path ==
            SubSeq(_effective_path, 1, Len(_effective_path) - 1)
    IN  IF effective_path # << >>
        THEN effective_path[Len(effective_path)]
        ELSE ROOT

\* TomlFields::get_relative_parent_of_field: Some(parent), or None where the
\* code panics because no field has the name
get_relative_parent_of_field(self, this_field) ==
    get_by_name(self, relative_parent_name(this_field))

\* TomlFields::get_relative_children_of: the fields, other than the field
\* itself, whose relative parent equals it
get_relative_children_of(self, this_idx) ==
    LET this_field == get_field(self, this_idx)[1]
    IN  SelectSeq(self.fields,
            LAMBDA field :
                /\ index_of(self, field)[1] # this_idx
                /\ get_relative_parent_of_field(self, field) = Some(this_field))

\* the three loops of TomlFields::build after the walk
set_relative_paths(self) ==
    [self EXCEPT !.fields =
        [i \in 1..Len(self.fields) |->
            LET rel_path == get_relative_path(self, self.fields[i].path)
            IN  IF rel_path # None
                THEN [self.fields[i] EXCEPT !.relative_path = rel_path]
                ELSE self.fields[i]]]

RECURSIVE set_aliases(_, _)
set_aliases(self, aliases) ==
    IF aliases = << >> THEN self
    ELSE LET orig == PatternToString(Head(aliases).orig)
             alias == PatternToString(Head(aliases).alias)
             found == \E i \in 1..Len(self.fields) : self.fields[i].path = orig
             at == CHOOSE i \in 1..Len(self.fields) :
                      /\ self.fields[i].path = orig
                      /\ \A j \in 1..(i - 1) : self.fields[j].path # orig
         IN  set_aliases(
                 IF found
                 THEN [self EXCEPT !.fields[at].alias = Some(alias)]
                 ELSE self,
                 Tail(aliases))

\* HashMap::get
MapGet(map, key) == IF key \in DOMAIN map THEN Some(map[key]) ELSE None

lookup_comment(c, field) ==
    LET first == MapGet(c, field.path)
        second == IF first = None
                  THEN MapGet(c, snake_to_kebab(field.path)) ELSE first
        third == IF second = None /\ field.toml_path # None
                 THEN MapGet(c, field.toml_path[1]) ELSE second
        fourth == IF second = None /\ field.toml_path # None /\ third = None
                  THEN MapGet(c, snake_to_kebab(field.toml_path[1])) ELSE third
    IN  fourth

set_comments(self) ==
    [self EXCEPT !.fields =
        [i \in 1..Len(self.fields) |->
            LET comment == IF self.comments = None THEN None
                           ELSE lookup_comment(self.comments[1], self.fields[i])
            IN  IF comment # None
                THEN [self.fields[i] EXCEPT !.comment = comment]
                ELSE self.fields[i]]]

\* TomlFields::build
TomlFields_build(self) ==
    LET walked == extract_matched_paths_from_value(
                      self, self.root_value[1], ROOT, 0)
        relative == set_relative_paths(walked)
        aliased == set_aliases(relative,
                       IF relative.aliases = None THEN << >>
                       ELSE relative.aliases[1])
    IN  set_comments(aliased)

\* the tokens of one constant declaration and of one module
ConstItem(name, ty, val, doc) ==
    [item |-> "const", name |-> name, ty |-> ty, val |-> << val >>,
     doc |-> doc, body |-> << >>]

ModItem(name, doc, body) ==
    [item |-> "mod", name |-> name, ty |-> "mod", val |-> << >>,
     doc |-> doc, body |-> body]

\* TomlFields::generate_module: the tokens appended for the field at idx,
\* and its loop over the table children
RECURSIVE generate_module(_, _)
RECURSIVE generate_submodules(_, _)
generate_module(self, idx) ==
    LET this == get_field(self, idx)[1]
        module_name == Split(this.path, ".")[Len(Split(this.path, "."))]
        mod_ident == IF module_name # << >>
                     THEN Some(to_lowercase(to_valid_ident(module_name)))
                     ELSE None
        relative_children_fields_iter == get_relative_children_of(self, idx)
        leaves == SelectSeq(relative_children_fields_iter,
                      LAMBDA f : ~ is_table(f))
        consts == [i \in 1..Len(leaves) |->
                      ConstItem(to_uppercase(to_valid_ident(leaves[i].name)),
                                convert_value_to_tokens(leaves[i].value)[1],
                                convert_value_to_tokens(leaves[i].value)[2],
                                get_doc_comment(leaves[i]))]
        mod_tokens == consts \o generate_submodules(self,
                          SelectSeq(relative_children_fields_iter, is_table))
    IN  IF mod_tokens # << >>
        THEN IF mod_ident # None
             THEN << ModItem(mod_ident[1], get_doc_comment(this), mod_tokens) >>
             ELSE mod_tokens
        ELSE << >>

generate_submodules(self, submods) ==
    IF submods = << >> THEN << >>
    ELSE generate_module(self, index_of(self, Head(submods))[1])
         \o generate_submodules(self, Tail(submods))

\* TomlFields::generate_modules: the code panics when some field's relative
\* parent is looked up and no field has the name
generate_panics(self) ==
    \E i \in 1..Len(self.fields) :
        get_relative_parent_of_field(self, self.fields[i]) = None

generate_modules(self) == generate_module(self, 0)

----------------------------------------------------------------------------
(* src/src/module.rs                                                       *)

\* RootModule::build: the glob sets and the literals of the block, then the
\* field collection built over the document
RootModule_build(root_source, root_toml) ==
    LET inclusions == [i \in 1..Len(root_source.inclusion_pats) |->
                          PatternToString(root_source.inclusion_pats[i])]
        exclusions == [i \in 1..Len(root_source.exclusion_pats) |->
                          PatternToString(root_source.exclusion_pats[i])]
        literals == inclusions
                    \o [i \in 1..Len(exclusions) |-> << "!" >> \o exclusions[i]]
    IN  TomlFields_build(
            [root_value |-> Some(root_toml),
             fields |-> << >>,
             patterns |-> [inclusions |-> Some(inclusions),
                           exclusions |-> Some(exclusions),
                           literals |-> literals],
             comments |-> Some(root_source.comments),
             aliases |-> Some(root_source.aliases)])

\* impl ToTokens for RootModule: the module of the header around the tokens
\* of the fields
RootModule_to_tokens(root_source, self) ==
    << ModItem(root_source.name, None, generate_modules(self)) >>

----------------------------------------------------------------------------
(* The documents and the blocks the generation pass is run on              *)

\* the most leaves a document has
MaxLeaves == 2

\* the most alias bindings a block has
MaxAliases == 2

String(chars) == [tag |-> "String", v |-> chars]

\* the leaves documents are made of, in the decoder's (sorted) order; every
\* leaf has its own integer value, and `doc` is the comment the document
\* carries on the line that defines the leaf
LeafUniverse ==
    << [path |-> << <<"a">>, <<"b">>, <<"k">> >>,
        value |-> Integer(2), doc |-> None],
       [path |-> << <<"a">>, <<"k">> >>,
        value |-> Integer(3), doc |-> Some(<<"d","3">>)],
       [path |-> << <<"b">> >>,
        value |-> Integer(4), doc |-> None],
       [path |-> << <<"c">>, <<"a","-","b">>, <<"x","_","y">> >>,
        value |-> Integer(5), doc |-> Some(<<"d","5">>)],
       [path |-> << <<"c">>, <<"b">>, <<"k">> >>,
        value |-> Integer(6), doc |-> None],
       [path |-> << <<"c">>, <<"x","-","y">> >>,
        value |-> Integer(7), doc |-> Some(<<"d","7">>)],
       [path |-> << <<"j",".","d">>, <<"j">> >>,
        value |-> Integer(1), doc |-> None] >>

\* the elements of a set of numbers in increasing order
RECURSIVE Sorted(_)
Sorted(S) ==
    IF S = {} THEN << >>
    ELSE LET m == CHOOSE x \in S : \A y \in S : x <= y
         IN  << m >> \o Sorted(S \ {m})

\* the leaves of a document, chosen from the universe and kept in its order
Leaves(S) == [i \in 1..Len(Sorted(S)) |-> LeafUniverse[Sorted(S)[i]]]

\* the documents: at most MaxLeaves leaves of the universe
Documents ==
    { Table([i \in 1..Len(Leaves(S)) |->
                [path |-> Leaves(S)[i].path, value |-> Leaves(S)[i].value]]) :
        S \in { S \in SUBSET (1..Len(LeafUniverse)) : Cardinality(S) <= MaxLeaves } }

\* the dotted document path of a leaf
DocPath(path) == Join(path, << "." >>)

\* the comment map extract_comments returns for a document: the comment of
\* every leaf that carries one, under the leaf's document path
CommentsOf(doc) ==
    LET commented == { i \in 1..Len(LeafUniverse) :
                         /\ LeafUniverse[i].doc # None
                         /\ \E n \in 1..Len(doc.v) :
                               doc.v[n].path = LeafUniverse[i].path }
    IN  [p \in { DocPath(LeafUniverse[i].path) : i \in commented } |->
            LeafUniverse[CHOOSE i \in commented :
                             DocPath(LeafUniverse[i].path) = p].doc[1]]

\* the sequences without repetition of at most n elements of a set
RECURSIVE Arrangements(_, _)
Arrangements(S, n) ==
    IF n = 0 THEN { << >> }
    ELSE { << >> } \cup
         { << x >> \o rest : x \in S, rest \in Arrangements(S, n - 1) }

\* the tokens of the pattern c.a-b.* as a block writes it
KebabWritten ==
    << <<"c">>, <<".">>, <<"a">>, <<"-">>, <<"b">>, <<".">>, <<"*">> >>

\* the pattern the parser makes of it
KebabPattern == Pattern_parse(KebabWritten).value

\* the inclusion lists of the blocks
InclusionLists ==
    { << >>,
      << KebabPattern >>,
      << << Ident(<<"a">>), Star >> >>,
      << << Ident(<<"c">>), Star >> >>,
      << << Star >> >>,
      << << Ident(<<"t">>), Star >> >>,
      << << Ident(<<"a">>), Ident(<<"b">>), Ident(<<"k">>) >> >>,
      << << Ident(<<"a">>), Star >>, << Ident(<<"c">>), Star >> >> }

\* the exclusion lists of the blocks
ExclusionLists ==
    { << >>,
      << << Ident(<<"a">>), Ident(<<"b">>), Star >> >>,
      << << Star, Ident(<<"k">>) >> >> }

\* the alias bindings of the blocks: alias <alias> = <orig>
AliasUniverse ==
    { [alias |-> << Ident(<<"n">>) >>,
       orig |-> << Ident(<<"a">>), Ident(<<"k">>) >>],
      [alias |-> << Ident(<<"d">>) >>,
       orig |-> << Ident(<<"a">>), Ident(<<"k">>) >>],
      [alias |-> << Ident(<<"t">>) >>,
       orig |-> << Ident(<<"a">>) >>],
      [alias |-> << Ident(<<"y">>) >>,
       orig |-> << Ident(<<"c">>), Ident(<<"x","_","y">>) >>] }

\* the alias maps: at most MaxAliases bindings with distinct keys, in any
\* iteration order
AliasMaps ==
    { s \in Arrangements(AliasUniverse, MaxAliases) :
        \A i, j \in 1..Len(s) : s[i].alias = s[j].alias => i = j }

\* the blocks ([h] ...): the parsed RootModuleSource, with the comments
\* RootModule::new has stored in it
Blocks(doc) ==
    { [name |-> << "h" >>, inclusion_pats |-> inc, exclusion_pats |-> exc,
       aliases |-> als, comments |-> CommentsOf(doc)] :
        inc \in InclusionLists, exc \in ExclusionLists, als \in AliasMaps }

----------------------------------------------------------------------------
(* The generation pass of one block                                        *)

FieldsInit ==
    /\ pc = "parsed"
    /\ toml \in Documents
    /\ source \in Blocks(toml)
    /\ fields = TomlFields_new
    /\ tokens = << >>

\* RootModule::build
Build ==
    /\ pc = "parsed"
    /\ fields' = RootModule_build(source, toml)
    /\ pc' = "built"
    /\ UNCHANGED << toml, source, tokens >>
    /\ UNCHANGED << harvest_vars, util_vars >>

\* RootModule::to_tokens: the tokens of the block, or the panic of a parent
\* lookup that finds no field
Emit ==
    /\ pc = "built"
    /\ IF generate_panics(fields)
       THEN pc' = "panicked" /\ tokens' = tokens
       ELSE pc' = "emitted" /\ tokens' = RootModule_to_tokens(source, fields)
    /\ UNCHANGED << toml, source, fields >>
    /\ UNCHANGED << harvest_vars, util_vars >>

HarvestIdle ==
    /\ hpc = "idle"
    /\ lines = << >>
    /\ line_no = 0
    /\ string_state = "None"
    /\ current_comments = << >>
    /\ current_path = << >>
    /\ comments = << >>

\* no helper is being called
UtilIdle == call = [fn |-> "none", arg |-> << >>] /\ ret = None

Init == FieldsInit /\ HarvestIdle /\ UtilIdle

Next == Build \/ Emit

Spec == Init /\ [][Next]_vars

----------------------------------------------------------------------------
(* Reading the emitted tokens                                              *)

\* the constant declarations of a token stream, each with the namespace it
\* is declared in (the names of the enclosing modules, outermost first)
RECURSIVE ConstsOf(_, _)
ConstsOf(items, namespace) ==
    IF items = << >> THEN {}
    ELSE (IF Head(items).item = "const"
          THEN { [namespace |-> namespace, name |-> Head(items).name,
                  val |-> Head(items).val[1], doc |-> Head(items).doc] }
          ELSE ConstsOf(Head(items).body, Append(namespace, Head(items).name)))
         \cup ConstsOf(Tail(items), namespace)

\* the modules of a token stream, each with its namespace and its body
RECURSIVE ModsOf(_, _)
ModsOf(items, namespace) ==
    IF items = << >> THEN {}
    ELSE (IF Head(items).item = "mod"
          THEN { [namespace |-> namespace, name |-> Head(items).name,
                  body |-> Head(items).body] }
               \cup ModsOf(Head(items).body, Append(namespace, Head(items).name))
          ELSE {})
         \cup ModsOf(Tail(items), namespace)

----------------------------------------------------------------------------
(* The vocabulary of the claims about a block                              *)

\* the leaves of the document
DocLeaves == { toml.v[i] : i \in 1..Len(toml.v) }

\* the retained fields of a leaf: every leaf has a value of its own
FieldsOfLeaf(e) ==
    { i \in 1..Len(fields.fields) : fields.fields[i].value = e.value }

Retained(e) == FieldsOfLeaf(e) # {}

\* the bindings whose source is the document path (as written, or with
\* dashes as underscores)
BindingsOf(keys) ==
    { i \in 1..Len(source.aliases) :
        PatternToString(source.aliases[i].orig)
            \in { DocPath(keys), to_valid_ident(DocPath(keys)) } }

IsAliasSource(e) == BindingsOf(e.path) # {}

\* the globs of the block
InclusionGlobs ==
    [i \in 1..Len(source.inclusion_pats) |->
        PatternToString(source.inclusion_pats[i])]

ExclusionGlobs ==
    [i \in 1..Len(source.exclusion_pats) |->
        PatternToString(source.exclusion_pats[i])]

\* the normalised absolute path of a leaf that is no alias source: every
\* key normalised, the name of an aliased ancestor table replaced by its
\* alias
AbsolutePath(e) ==
    Join([n \in 1..Len(e.path) |->
             LET bound == BindingsOf(SubSeq(e.path, 1, n))
             IN  IF n < Len(e.path) /\ bound # {}
                 THEN PatternToString(
                          source.aliases[CHOOSE i \in bound :
                                            \A j \in bound : i <= j].alias)
                 ELSE to_valid_ident(e.path[n])],
         << "." >>)

PassesFilter(path) ==
    /\ is_match(InclusionGlobs, path)
    /\ ~ is_match(ExclusionGlobs, path)

\* the constants of the block's output
Consts == ConstsOf(tokens, << >>)

----------------------------------------------------------------------------
(* C1: in a block with at least one inclusion pattern, a leaf that is not  *)
(* the source of an alias is retained if and only if its normalised        *)
(* absolute path matches an inclusion glob and no exclusion glob.          *)
C1_RetainedIffFilter ==
    (pc = "built" /\ source.inclusion_pats # << >>) =>
        \A e \in DocLeaves :
            ~ IsAliasSource(e) =>
                (Retained(e) <=> PassesFilter(AbsolutePath(e)))

(* C2: in a block without inclusion patterns every leaf that matches no    *)
(* exclusion glob is retained.                                             *)
C2_NoInclusionsKeepAll ==
    (pc = "built" /\ source.inclusion_pats = << >>) =>
        \A e \in DocLeaves :
            ~ is_match(ExclusionGlobs, AbsolutePath(e)) => Retained(e)

(* C3: a leaf whose document path is the source of an alias binding is     *)
(* always retained.                                                        *)
C3_AliasedAlwaysRetained ==
    pc = "built" => \A e \in DocLeaves : IsAliasSource(e) => Retained(e)

(* C4: for every binding alias NEW = OLD with OLD the path of a leaf, the  *)
(* output has a constant named uppercase(NEW) with the leaf's value and no *)
(* constant from that leaf under its original key.                         *)
C4_AliasRenamesConstant ==
    pc = "emitted" =>
        \A e \in DocLeaves : \A i \in BindingsOf(e.path) :
            /\ \E c \in Consts :
                  /\ c.name = to_uppercase(PatternToString(source.aliases[i].alias))
                  /\ c.val = convert_value_to_tokens(e.value)[2]
            /\ ~ \E c \in Consts :
                  /\ c.name = to_uppercase(to_valid_ident(e.path[Len(e.path)]))
                  /\ c.val = convert_value_to_tokens(e.value)[2]


\* the tables and leaves of the document, each by its path of keys
DocNodes ==
    UNION { { SubSeq(e.path, 1, n) : n \in 1..Len(e.path) } : e \in DocLeaves }

\* a block whose only pattern is P.* and that binds no alias
IsPrefixStar(pattern) ==
    /\ Len(pattern) >= 2
    /\ pattern[Len(pattern)] = Star
    /\ \A n \in 1..(Len(pattern) - 1) : pattern[n].seg = "Ident"

PrefixOf(pattern) == [n \in 1..(Len(pattern) - 1) |-> pattern[n].ident]

PrefixStarBlock ==
    /\ Len(source.inclusion_pats) = 1
    /\ IsPrefixStar(source.inclusion_pats[1])
    /\ source.aliases = << >>

\* a leaf at P.r1...rk.key with none of r1..rk, key a segment of P
Below(e, P) ==
    /\ Len(e.path) > Len(P)
    /\ SubSeq(e.path, 1, Len(P)) = P
    /\ \A n \in (Len(P) + 1)..Len(e.path) :
          \A m \in 1..Len(P) : e.path[n] # P[m]

Rest(e, P) == SubSeq(e.path, Len(P) + 1, Len(e.path) - 1)

Key(e) == e.path[Len(e.path)]

AliasedLeafFields ==
    { i \in 1..Len(fields.fields) :
        ~ is_table(fields.fields[i]) /\ fields.fields[i].alias # None }

UnderHeader(f) ==
    \E c \in Consts :
        /\ c.namespace = << source.name >>
        /\ c.name = to_uppercase(f.alias[1])
        /\ c.val = convert_value_to_tokens(f.value)[2]

----------------------------------------------------------------------------
(* src/src/comments.rs                                                     *)

TripleDouble == << "\"", "\"", "\"" >>

TripleSingle == << "'", "'", "'" >>

\* str::find(char) as a byte offset counted from 0
find(s, c) == IF Find(s, c) = None THEN None ELSE Some(Find(s, c)[1] - 1)

\* &s[from..to] with offsets counted from 0
Slice(s, from, to) == SubSeq(s, from + 1, to)

\* extract_inline_comment
extract_inline_comment(line, after_pos) ==
    LET comment_pos == find(line, "#")
    IN  IF comment_pos # None /\ comment_pos[1] > after_pos
        THEN LET comment == Trim(Slice(line, comment_pos[1] + 1, Len(line)))
             IN  IF comment # << >> THEN Some(comment) ELSE None
        ELSE None

\* HashMap::insert
Insert(map, key, value) ==
    [p \in DOMAIN map \cup { key } |-> IF p = key THEN value ELSE map[p]]

\* the line the loop of extract_comments is at, trimmed
trimmed == Trim(lines[line_no + 1])

\* the string state a line outside a string opens
opened_by(t) ==
    IF Contains(t, TripleDouble) /\ ~ Contains(t, TripleDouble \o TripleDouble)
    THEN "MultiDoubleQuote"
    ELSE IF Contains(t, TripleSingle)
            /\ ~ Contains(t, TripleSingle \o TripleSingle)
         THEN "MultiSingleQuote"
         ELSE "None"

\* the loop has a line to look at
AtLine == hpc = "scan" /\ line_no < Len(lines)

\* a blank line that clears the accumulator only outside a string
BlankLine_outside_string_only ==
    /\ AtLine
    /\ trimmed = << >>
    /\ current_comments' =
          IF string_state = "None" THEN << >> ELSE current_comments
    /\ line_no' = line_no + 1
    /\ UNCHANGED << hpc, lines, string_state, current_path, comments >>
    /\ UNCHANGED << field_vars, util_vars >>

\* a line that is empty once trimmed clears the accumulator, in any string
\* state
BlankLine ==
    /\ AtLine
    /\ trimmed = << >>
    /\ current_comments' = << >>
    /\ line_no' = line_no + 1
    /\ UNCHANGED << hpc, lines, string_state, current_path, comments >>
    /\ UNCHANGED << field_vars, util_vars >>

\* a line inside a multi-line string that is harvested when it starts with #
InStringLine_harvesting ==
    /\ AtLine
    /\ trimmed # << >>
    /\ string_state # "None"
    /\ ~ \/ string_state = "MultiSingleQuote" /\ Contains(trimmed, TripleSingle)
         \/ string_state = "MultiDoubleQuote" /\ Contains(trimmed, TripleDouble)
    /\ current_comments' =
          IF StartsWith(trimmed, << "#" >>)
          THEN Append(current_comments, Trim(Slice(trimmed, 1, Len(trimmed))))
          ELSE current_comments
    /\ line_no' = line_no + 1
    /\ UNCHANGED << hpc, lines, string_state, current_path, comments >>
    /\ UNCHANGED << field_vars, util_vars >>

\* inside a multi-line string, a line without the closing delimiter
InStringLine ==
    /\ AtLine
    /\ trimmed # << >>
    /\ string_state # "None"
    /\ ~ \/ string_state = "MultiSingleQuote" /\ Contains(trimmed, TripleSingle)
         \/ string_state = "MultiDoubleQuote" /\ Contains(trimmed, TripleDouble)
    /\ line_no' = line_no + 1
    /\ UNCHANGED << hpc, lines, string_state, current_comments, current_path,
                    comments >>
    /\ UNCHANGED << field_vars, util_vars >>

\* inside a multi-line string, the line with its closing delimiter
CloseStringLine ==
    /\ AtLine
    /\ trimmed # << >>
    /\ \/ string_state = "MultiSingleQuote" /\ Contains(trimmed, TripleSingle)
       \/ string_state = "MultiDoubleQuote" /\ Contains(trimmed, TripleDouble)
    /\ string_state' = "None"
    /\ line_no' = line_no + 1
    /\ UNCHANGED << hpc, lines, current_comments, current_path, comments >>
    /\ UNCHANGED << field_vars, util_vars >>

\* outside a string, a line that opens a multi-line string
OpenStringLine ==
    /\ AtLine
    /\ trimmed # << >>
    /\ string_state = "None"
    /\ opened_by(trimmed) # "None"
    /\ string_state' = opened_by(trimmed)
    /\ line_no' = line_no + 1
    /\ UNCHANGED << hpc, lines, current_comments, current_path, comments >>
    /\ UNCHANGED << field_vars, util_vars >>

\* a line the string branches leave to the rest of the loop body
PlainLine ==
    /\ AtLine
    /\ trimmed # << >>
    /\ string_state = "None"
    /\ opened_by(trimmed) = "None"

IsHeader(t) == StartsWith(t, << "[" >>) /\ find(t, "]") # None

\* a section header whose path extends the path of the header before it
HeaderLine_extending ==
    /\ PlainLine
    /\ IsHeader(trimmed)
    /\ LET section_end == find(trimmed, "]")[1]
           section_path == Slice(trimmed, 1, section_end)
           inline == extract_inline_comment(trimmed, section_end)
           all_comments == current_comments \o inline
       IN  /\ current_path' = current_path \o Split(section_path, ".")
           /\ comments' = IF all_comments # << >>
                          THEN Insert(comments, section_path,
                                      Join(all_comments, << "\n" >>))
                          ELSE comments
    /\ current_comments' = << >>
    /\ line_no' = line_no + 1
    /\ UNCHANGED << hpc, lines, string_state >>
    /\ UNCHANGED << field_vars, util_vars >>

\* a section header [section.subsection]
HeaderLine ==
    /\ PlainLine
    /\ IsHeader(trimmed)
    /\ LET section_end == find(trimmed, "]")[1]
           section_path == Slice(trimmed, 1, section_end)
           inline == extract_inline_comment(trimmed, section_end)
           all_comments == current_comments \o inline
       IN  /\ current_path' = Split(section_path, ".")
           /\ comments' = IF all_comments # << >>
                          THEN Insert(comments, section_path,
                                      Join(all_comments, << "\n" >>))
                          ELSE comments
    /\ current_comments' = << >>
    /\ line_no' = line_no + 1
    /\ UNCHANGED << hpc, lines, string_state >>
    /\ UNCHANGED << field_vars, util_vars >>

\* a comment line
CommentLine ==
    /\ PlainLine
    /\ ~ IsHeader(trimmed)
    /\ StartsWith(trimmed, << "#" >>)
    /\ current_comments' =
          Append(current_comments, Trim(Slice(trimmed, 1, Len(trimmed))))
    /\ line_no' = line_no + 1
    /\ UNCHANGED << hpc, lines, string_state, current_path, comments >>
    /\ UNCHANGED << field_vars, util_vars >>

\* a key-value pair
KeyLine ==
    /\ PlainLine
    /\ ~ IsHeader(trimmed)
    /\ ~ StartsWith(trimmed, << "#" >>)
    /\ find(trimmed, "=") # None
    /\ LET pos == find(trimmed, "=")[1]
           key == Trim(Slice(trimmed, 0, pos))
           segs == Split(key, ".")
           full_path == current_path \o [n \in 1..Len(segs) |-> Trim(segs[n])]
           path_str == Join(full_path, << "." >>)
           inline == extract_inline_comment(trimmed, pos)
           key_comments == current_comments \o inline
       IN  comments' = IF key_comments # << >>
                       THEN Insert(comments, path_str,
                                   Join(key_comments, << "\n" >>))
                       ELSE comments
    /\ current_comments' = << >>
    /\ line_no' = line_no + 1
    /\ UNCHANGED << hpc, lines, string_state, current_path >>
    /\ UNCHANGED << field_vars, util_vars >>

\* any other line
OtherLine ==
    /\ PlainLine
    /\ ~ IsHeader(trimmed)
    /\ ~ StartsWith(trimmed, << "#" >>)
    /\ find(trimmed, "=") = None
    /\ current_comments' = << >>
    /\ line_no' = line_no + 1
    /\ UNCHANGED << hpc, lines, string_state, current_path, comments >>
    /\ UNCHANGED << field_vars, util_vars >>

\* the end of the loop, or the early return on empty content
Return ==
    /\ hpc = "scan"
    /\ line_no = Len(lines)
    /\ hpc' = "done"
    /\ UNCHANGED << lines, line_no, string_state, current_comments,
                    current_path, comments >>
    /\ UNCHANGED << field_vars, util_vars >>

----------------------------------------------------------------------------
(* The content as a TOML document reads it                                 *)

IsBlank(l) == Trim(l) = << >>

IsComment(l) == StartsWith(Trim(l), << "#" >>)

\* the text of a comment line
CommentText(l) == Trim(Tail(Trim(l)))

\* the value of a key line: what follows its first =
ValueOf(l) == Trim(SubSeq(Trim(l), Find(Trim(l), "=")[1] + 1, Len(Trim(l))))

\* the key of a key line
KeyOf(l) == Trim(SubSeq(Trim(l), 1, Find(Trim(l), "=")[1] - 1))

\* a key line whose value starts a multi-line string that the line does not
\* end
OpensString(l) ==
    /\ Find(Trim(l), "=") # None
    /\ \E q \in { TripleDouble, TripleSingle } :
          /\ StartsWith(ValueOf(l), q)
          /\ ~ Contains(SubSeq(ValueOf(l), 4, Len(ValueOf(l))), q)

\* a key line whose value is a multi-line string that the line ends
ClosedString(l) ==
    /\ Find(Trim(l), "=") # None
    /\ \E q \in { TripleDouble, TripleSingle } :
          /\ StartsWith(ValueOf(l), q)
          /\ Contains(SubSeq(ValueOf(l), 4, Len(ValueOf(l))), q)

\* the delimiter of the multi-line string that is open after the first n
\* lines, << >> when none is
RECURSIVE OpenAfter(_)
OpenAfter(n) ==
    IF n = 0 THEN << >>
    ELSE LET before == OpenAfter(n - 1)
         IN  IF before # << >>
             THEN IF Contains(lines[n], before) THEN << >> ELSE before
             ELSE IF ~ IsBlank(lines[n]) /\ ~ IsComment(lines[n])
                     /\ OpensString(lines[n])
                  THEN SubSeq(ValueOf(lines[n]), 1, 3)
                  ELSE << >>

\* what line n is
Kind(n) ==
    IF OpenAfter(n - 1) # << >>
    THEN IF OpenAfter(n) = << >> THEN "close" ELSE "text"
    ELSE IF IsBlank(lines[n]) THEN "blank"
    ELSE IF IsComment(lines[n]) THEN "comment"
    ELSE IF OpenAfter(n) # << >> THEN "open"
    ELSE IF StartsWith(Trim(lines[n]), << "[" >>)
            /\ Find(Trim(lines[n]), "]") # None THEN "header"
    ELSE IF /\ Contains(lines[n], TripleDouble) \/ Contains(lines[n], TripleSingle)
            /\ ~ ClosedString(lines[n])
         THEN "stray"
    ELSE IF Find(Trim(lines[n]), "=") # None THEN "key"
    ELSE "other"

\* the name in the brackets of a header line
HeaderOf(l) == SubSeq(Trim(l), 2, Find(Trim(l), "]")[1] - 1)

\* the dotted path line d defines, d a header or a key line
DefPath(d) ==
    IF Kind(d) = "header" THEN HeaderOf(lines[d])
    ELSE LET above == { h \in 1..(d - 1) : Kind(h) = "header" }
         IN  IF above = {} THEN KeyOf(lines[d])
             ELSE HeaderOf(lines[CHOOSE h \in above : \A g \in above : g <= h])
                  \o << "." >> \o KeyOf(lines[d])

Defining == { d \in 1..Len(lines) : Kind(d) \in { "header", "key" } }

\* a document the decoder accepts: every multi-line string is closed, no
\* delimiter stands outside a string, no path is defined twice
ValidContent ==
    /\ OpenAfter(Len(lines)) = << >>
    /\ \A n \in 1..Len(lines) : Kind(n) # "stray"
    /\ \A d, e \in Defining : d # e => DefPath(d) # DefPath(e)

----------------------------------------------------------------------------
(* The contents extract_comments is run on                                 *)

\* the longest content extract_comments is run on, in lines
MaxLines == 4

\* the lines of the contents: a blank line, a comment line, key lines with
\* and without an inline comment, a key whose string value holds a #, a
\* two headers, the lines that open and close multi-line strings, a key
\* whose multi-line string opens and closes on its line, and a line of a
\* multi-line array
LineUniverse ==
    { << " " >>,
      << "#", " ", " ", "c" >>,
      << "a", ".", "k", " ", "=", " ", "1" >>,
      << "j", " ", "=", " ", "2", " ", "#", " ", "d" >>,
      << "x", " ", "=", " ", "\"", "a", "#", "b", "\"" >>,
      << "[", "t", ".", "u", "]" >>,
      << "[", "v", "]" >>,
      << "y", " ", "=", " ", "\"", "\"", "\"" >>,
      << "\"", "\"", "\"" >>,
      << "z", " ", "=", " ", "\"", "\"", "\"", "q", "\"", "\"", "\"" >>,
      << "1", "," >> }

RECURSIVE Contents(_)
Contents(n) ==
    IF n = 0 THEN { << >> }
    ELSE Contents(n - 1)
         \cup { Append(c, l) : c \in { c \in Contents(n - 1) : Len(c) = n - 1 },
                               l \in LineUniverse }

\* the lines a content may hold more than once: the blank line, the comment
\* line and the array line; a key line or a header written twice defines a
\* path twice, and the decoder, which RootModule::new runs before
\* extract_comments, rejects that
Repeatable == { l \in LineUniverse : IsBlank(l) \/ IsComment(l) \/ l = << "1", "," >> }

Unrepeated(content) ==
    \A i, j \in 1..Len(content) :
        (i < j /\ content[i] = content[j]) => content[i] \in Repeatable

\* the lines that open a multi-line string and the lines that close one
Openers == { l \in LineUniverse : OpensString(l) }

Closers ==
    { l \in LineUniverse \ Openers :
        /\ Contains(l, TripleDouble) \/ Contains(l, TripleSingle)
        /\ ~ ClosedString(l) }

\* every multi-line string is closed and no delimiter stands outside a
\* string: the decoder rejects any other content
Balanced(content) ==
    \A i \in 1..Len(content) :
        /\ content[i] \in Openers =>
               \E j \in (i + 1)..Len(content) : content[j] \in Closers
        /\ content[i] \in Closers =>
               \E j \in 1..(i - 1) : content[j] \in Openers

\* extract_comments(content), up to its loop
HarvestInit ==
    /\ hpc = "scan"
    /\ lines \in Contents(MaxLines)
    /\ Unrepeated(lines)
    /\ Balanced(lines)
    /\ line_no = 0
    /\ string_state = "None"
    /\ current_comments = << >>
    /\ current_path = << >>
    /\ comments = << >>
    /\ pc = "comments"
    /\ toml = Table(<< >>)
    /\ source = [name |-> << "h" >>, inclusion_pats |-> << >>,
                 exclusion_pats |-> << >>, aliases |-> << >>,
                 comments |-> << >>]
    /\ fields = TomlFields_new
    /\ tokens = << >>
    /\ UtilIdle

HarvestNext ==
    \/ BlankLine
    \/ InStringLine
    \/ CloseStringLine
    \/ OpenStringLine
    \/ HeaderLine
    \/ CommentLine
    \/ KeyLine
    \/ OtherLine
    \/ Return

HarvestSpec == HarvestInit /\ [][HarvestNext]_vars

----------------------------------------------------------------------------
(* The comments a reader of the document attributes to its entries         *)

\* the texts of the comment lines directly above line d, topmost first
RECURSIVE RunAbove(_)
RunAbove(d) ==
    IF d > 1 /\ Kind(d - 1) = "comment"
    THEN Append(RunAbove(d - 1), CommentText(lines[d - 1]))
    ELSE << >>

\* the position of the # that starts the comment of a line, 0 when the
\* line has none: a # inside a quoted string starts no comment
RECURSIVE CommentStart(_, _, _)
CommentStart(l, i, quoted) ==
    IF i > Len(l) THEN 0
    ELSE IF l[i] = "\"" THEN CommentStart(l, i + 1, ~ quoted)
    ELSE IF l[i] = "#" /\ ~ quoted THEN i
    ELSE CommentStart(l, i + 1, quoted)

\* the inline comment of a line, as an Option
InlineOf(l) ==
    LET at == CommentStart(l, 1, FALSE)
    IN  IF at = 0 \/ Trim(SubSeq(l, at + 1, Len(l))) = << >> THEN None
        ELSE Some(Trim(SubSeq(l, at + 1, Len(l))))

\* a is b with some elements left out
RECURSIVE IsSubseq(_, _)
IsSubseq(a, b) ==
    IF a = << >> THEN TRUE
    ELSE IF b = << >> THEN FALSE
    ELSE IF Head(a) = Head(b)
         THEN IsSubseq(Tail(a), Tail(b)) \/ IsSubseq(a, Tail(b))
         ELSE IsSubseq(a, Tail(b))

\* the last blank line among the first n lines, 0 when there is none
LastBlank(n) ==
    LET blank == { d \in 1..n : IsBlank(lines[d]) }
    IN  IF blank = {} THEN 0 ELSE CHOOSE d \in blank : \A e \in blank : e <= d

----------------------------------------------------------------------------
(* C7: a key line with the comment lines c1..cn directly above it and the  *)
(* inline comment i maps its dotted path to c1, .., cn, i joined by        *)
(* newlines, a bare # line giving an empty string; with n = 0 and no       *)
(* inline comment the path has no entry.                                   *)
C7_KeyGetsRunAndInline ==
    (hpc = "done" /\ ValidContent) =>
        \A d \in 1..Len(lines) :
            Kind(d) = "key" =>
                LET all == RunAbove(d) \o InlineOf(lines[d])
                IN  IF all = << >>
                    THEN DefPath(d) \notin DOMAIN comments
                    ELSE /\ DefPath(d) \in DOMAIN comments
                         /\ comments[DefPath(d)] = Join(all, << "\n" >>)

\* the text after the first # of a line
AfterHash(l) == Trim(SubSeq(l, Find(l, "#")[1] + 1, Len(l)))

\* the entries a step wrote
Written == { p \in DOMAIN comments' :
               p \notin DOMAIN comments \/ comments[p] # comments'[p] }

\* the comment lines among lines from..to
CommentsIn(from, to) ==
    { CommentText(lines[d]) : d \in { d \in from..to : IsComment(lines[d]) } }

(* C8: a blank line empties the accumulator in every harvester state,      *)
(* inside a multi-line string too; the accumulator holds nothing from      *)
(* above the last blank line, and no entry is written with a comment line  *)
(* that a blank line separates from the defining line.                     *)
C8_BlankLineClears ==
    [][line_no' = line_no + 1 =>
          /\ IsBlank(lines[line_no']) =>
                current_comments' = << >> /\ comments' = comments
          /\ \A n \in 1..Len(current_comments') :
                current_comments'[n]
                    \in CommentsIn(LastBlank(line_no') + 1, line_no')
          /\ \A p \in Written :
                LET parts == Split(comments'[p], "\n")
                IN  \A n \in 1..Len(parts) :
                        \/ parts[n] \in CommentsIn(LastBlank(line_no') + 1,
                                                  line_no' - 1)
                        \/ /\ n = Len(parts)
                           /\ Find(lines[line_no'], "#") # None
                           /\ parts[n] = AfterHash(lines[line_no'])]_vars

\* a blank line inside a multi-line string has emptied an accumulator that
\* held the comment above the opening line
C8_Witness ==
    /\ hpc = "scan"
    /\ line_no >= 3
    /\ IsBlank(lines[line_no])
    /\ string_state # "None"
    /\ Kind(line_no - 1) = "open"
    /\ Kind(line_no - 2) = "comment"
    /\ current_comments = << >>
    /\ ValidContent

(* C9: every preceding-comment line of an entry belongs to the run of      *)
(* comment lines directly above the line that defines the entry's path; a  *)
(* comment line followed by any other non-blank line before the defining   *)
(* line is not attributed to it, and a run that no key or header follows   *)
(* is attributed to nothing.                                               *)
C9_OnlyTheRunDirectlyAbove ==
    (hpc = "done" /\ ValidContent) =>
        \A p \in DOMAIN comments :
            \E d \in Defining :
                /\ DefPath(d) = p
                /\ LET parts == Split(comments[p], "\n")
                   IN  \/ IsSubseq(parts, RunAbove(d))
                       \/ /\ Find(lines[d], "#") # None
                          /\ parts[Len(parts)] = AfterHash(lines[d])
                          /\ IsSubseq(SubSeq(parts, 1, Len(parts) - 1),
                                      RunAbove(d))

HeaderSegsAbove(d) ==
    LET above == { h \in 1..(d - 1) : Kind(h) = "header" }
    IN  IF above = {} THEN << >>
        ELSE Split(HeaderOf(lines[CHOOSE h \in above : \A g \in above : g <= h]),
                   ".")

\* the dot-separated segments of the text before the first = of a line
KeySegs(l) ==
    LET segs == Split(SubSeq(Trim(l), 1, Find(Trim(l), "=")[1] - 1), ".")
    IN  [n \in 1..Len(segs) |-> Trim(segs[n])]

\* no string delimiter stands outside a string in the first n lines: the
\* decoder, which runs before the harvester, rejects one that does
Delimited(n) == \A d \in 1..n : Kind(d) # "stray"

----------------------------------------------------------------------------
(* C12: every retained leaf whose defining line carries a comment has that *)
(* comment attached by the four-step lookup, whatever mix of dashes and    *)
(* underscores its key and the names of its ancestor tables use.           *)
C12_CommentAttached ==
    pc = "built" =>
        \A e \in DocLeaves :
            DocPath(e.path) \in DOMAIN source.comments =>
                \A i \in FieldsOfLeaf(e) :
                    fields.fields[i].comment
                        = Some(source.comments[DocPath(e.path)])

(* C13: every namespace of the output has a non-empty body, the nested     *)
(* namespaces of tables and the root namespace of the block header alike,  *)
(* also when the block retains no leaf.                                    *)
C13_NoEmptyNamespace ==
    pc = "emitted" => \A m \in ModsOf(tokens, << >>) : m.body # << >>

----------------------------------------------------------------------------
(* Calls of the helper functions                                           *)

Boolean(b) == [tag |-> "Boolean", v |-> b]

Array(elems) == [tag |-> "Array", v |-> elems]

\* the longest array converted
MaxArray == 2

\* the elements of the arrays: scalars of three variants and inner arrays
ArrayElements ==
    { String(<< "a" >>), String(<< "b" >>), Integer(1), Integer(2),
      Boolean(TRUE),
      Array(<< >>), Array(<< Integer(1) >>), Array(<< String(<< "a" >>) >>),
      Array(<< Integer(1), String(<< "a" >>) >>) }

RECURSIVE Arrays(_)
Arrays(n) ==
    IF n = 0 THEN { << >> }
    ELSE Arrays(n - 1)
         \cup { Append(a, e) : a \in { a \in Arrays(n - 1) : Len(a) = n - 1 },
                               e \in ArrayElements }

\* the values convert_value_to_tokens is called on
ConvertCalls ==
    { [fn |-> "convert_value_to_tokens", arg |-> v] :
        v \in { e \in ArrayElements : e.tag # "Array" }
              \cup { Array(a) : a \in Arrays(MaxArray) } }

\* the longest string to_valid_ident is called on
MaxIdent == 3

RECURSIVE Strings(_, _)
Strings(alphabet, n) ==
    IF n = 0 THEN { << >> }
    ELSE Strings(alphabet, n - 1)
         \cup { Append(w, c) :
                  w \in { w \in Strings(alphabet, n - 1) : Len(w) = n - 1 },
                  c \in alphabet }

\* the strings to_valid_ident is called on
IdentCalls ==
    { [fn |-> "to_valid_ident", arg |-> w] :
        w \in Strings({ "\"", "-", "a" }, MaxIdent) }

\* the most tokens of a stream Pattern::parse is called on
MaxTokens == 4

\* the streams Pattern::parse is called on
ParseCalls ==
    { [fn |-> "Pattern::parse", arg |-> w] :
        w \in Strings({ <<"a">>, <<"*">>, <<".">>, <<"!">>, <<"-">> },
                      MaxTokens) }

\* the calls of the helpers
UtilCalls == ConvertCalls \cup IdentCalls \cup ParseCalls

\* the block and the harvester are not running
FieldsIdle ==
    /\ pc = "idle"
    /\ toml = Table(<< >>)
    /\ source = [name |-> << "h" >>, inclusion_pats |-> << >>,
                 exclusion_pats |-> << >>, aliases |-> << >>,
                 comments |-> << >>]
    /\ fields = TomlFields_new
    /\ tokens = << >>

UtilInit ==
    /\ call \in UtilCalls
    /\ ret = None
    /\ FieldsIdle
    /\ HarvestIdle

\* a call of convert_value_to_tokens returns
Convert ==
    /\ call.fn = "convert_value_to_tokens"
    /\ ret = None
    /\ ret' = Some(convert_value_to_tokens(call.arg))
    /\ UNCHANGED << call, field_vars, harvest_vars >>

\* a call of to_valid_ident returns
ToValidIdent ==
    /\ call.fn = "to_valid_ident"
    /\ ret = None
    /\ ret' = Some(to_valid_ident(call.arg))
    /\ UNCHANGED << call, field_vars, harvest_vars >>

\* a call of Pattern::parse returns
ParsePattern ==
    /\ call.fn = "Pattern::parse"
    /\ ret = None
    /\ ret' = Some(Pattern_parse(call.arg))
    /\ UNCHANGED << call, field_vars, harvest_vars >>

UtilNext ==
    \/ Convert
    \/ ToValidIdent
    \/ ParsePattern

UtilSpec == UtilInit /\ [][UtilNext]_vars

(* C14: on an array convert_value_to_tokens yields, for the empty array, a *)
(* sequence-of-string-references type and an empty literal; for elements   *)
(* all of the variant of the first, a sequence of the first element's type *)
(* and the list of every element's literal in order; otherwise a single    *)
(* string reference holding the debug rendering of the array.              *)
C14_ArrayConversion ==
    (call.fn = "convert_value_to_tokens" /\ call.arg.tag = "Array"
        /\ ret # None) =>
        LET arr == call.arg.v
            ty == ret[1][1]
            val == ret[1][2]
        IN  IF Len(arr) = 0
            THEN ty = SliceOf(StrTy) /\ val = << "&", "[", "]" >>
            ELSE IF \A i \in 1..Len(arr) : arr[i].tag = arr[1].tag
                 THEN /\ ty = SliceOf(convert_value_to_tokens(arr[1])[1])
                      /\ val = << "&", "[" >>
                               \o Join([i \in 1..Len(arr) |->
                                          convert_value_to_tokens(arr[i])[2]],
                                       << ",", " " >>)
                               \o << "]" >>
                 ELSE /\ ty = StrTy
                      /\ val = StrLit(DebugVec(arr))

\* a mixed array has been converted to the string of its debug rendering
C14_Witness ==
    /\ call.fn = "convert_value_to_tokens"
    /\ call.arg = Array(<< String(<< "a" >>), Integer(1) >>)
    /\ ret = Some(<< StrTy,
                    << "\"", "[", "S", "t", "r", "i", "n", "g", "(", "\\", "\"",
                       "a", "\\", "\"", ")", ",", " ", "I", "n", "t", "e", "g",
                       "e", "r", "(", "1", ")", "]", "\"" >> >>)

\* a type token is a sequence type, and the element type it declares
IsSlice(ty) ==
    /\ Len(ty) >= 11
    /\ ty = SliceOf(SubSeq(ty, 11, Len(ty) - 1))

ElemTy(ty) == SubSeq(ty, 11, Len(ty) - 1)

\* the literal convert_value_to_tokens emits for a value is an expression
\* of type ty: the empty list literal is of every sequence type, a list
\* literal is of a sequence type when each of its elements is of the
\* element type, any other literal is of the type the conversion gives it
RECURSIVE LiteralHasType(_, _)
LiteralHasType(value, ty) ==
    IF value.tag = "Array" /\ IsSlice(convert_value_to_tokens(value)[1])
    THEN /\ IsSlice(ty)
         /\ \A i \in 1..Len(value.v) : LiteralHasType(value.v[i], ElemTy(ty))
    ELSE convert_value_to_tokens(value)[1] = ty

\* C29: when convert_value_to_tokens returns a sequence type for an array,
\* every element literal of the returned list is of the declared element
\* type, arrays of arrays included
C29_ElementsOfDeclaredType ==
    (call.fn = "convert_value_to_tokens" /\ call.arg.tag = "Array"
        /\ ret # None /\ IsSlice(ret[1][1])) =>
        \A i \in 1..Len(call.arg.v) :
            LiteralHasType(call.arg.v[i], ElemTy(ret[1][1]))

\* C30: the string flag of extract_comments is set only while the lines
\* read so far leave a multi-line string open; after a line on which a
\* string both opens and closes the flag is clear
C30_FlagOnlyInsideOpenString ==
    (hpc = "scan" /\ string_state # "None" /\ ValidContent) =>
        OpenAfter(line_no) # << >>

(* C15: to_valid_ident removes the surrounding double quotes exactly when  *)
(* the first and the last character are both a double quote and leaves     *)
(* quotes alone otherwise, returns the root sentinel when the result is    *)
(* empty, and replaces every dash by an underscore.                        *)
C15_ToValidIdentRules ==
    (call.fn = "to_valid_ident" /\ ret # None) =>
        LET input == call.arg
            stripped == IF /\ Len(input) >= 2
                           /\ input[1] = "\""
                           /\ input[Len(input)] = "\""
                        THEN SubSeq(input, 2, Len(input) - 1)
                        ELSE input
        IN  ret[1] = IF stripped = << >> THEN ROOT
                     ELSE [i \in 1..Len(stripped) |->
                              IF stripped[i] = "-" THEN "_" ELSE stripped[i]]

(* C16: a pattern segment written in kebab form renders with "_" between  *)
(* its parts, which is to_valid_ident of the spelling with dashes; so the  *)
(* pattern c.a-b.* retains the leaves of the document table c.a-b, each    *)
(* as a constant named by its key with underscores; and no constant of     *)
(* any block has a dash in its name.                                       *)
C16_KebabPatternMatches ==
    pc = "emitted" =>
        /\ \A c \in Consts : \A i \in 1..Len(c.name) : c.name[i] # "-"
        /\ (/\ source.inclusion_pats = << KebabPattern >>
            /\ source.exclusion_pats = << >>
            /\ source.aliases = << >>) =>
               /\ PatternToString(KebabPattern)
                      = to_valid_ident(Join(KebabWritten, << >>))
               /\ \A e \in DocLeaves :
                      (/\ Len(e.path) = 3
                       /\ SubSeq(e.path, 1, 2) = << <<"c">>, <<"a","-","b">> >>) =>
                          \E c \in Consts :
                              /\ c.name = to_uppercase(
                                     Replace(e.path[3], "-", "_"))
                              /\ c.val = convert_value_to_tokens(e.value)[2]

\* the block c.a-b.* has emitted the constant X_Y of the leaf c.a-b.x_y,
\* beside the constant X_Y of a kebab key
C16_Witness ==
    /\ pc = "emitted"
    /\ source.inclusion_pats = << KebabPattern >>
    /\ source.exclusion_pats = << >>
    /\ source.aliases = << >>
    /\ \E e \in DocLeaves :
          e.path = << <<"c">>, <<"a","-","b">>, <<"x","_","y">> >>
    /\ \E c \in Consts : c.name = << "X", "_", "Y" >>

(* C18: the pattern parser accepts the negation marker only as the first   *)
(* segment: no successfully parsed pattern has a negation segment at a     *)
(* later position, a stream with "!" after a "." being a syntax error.     *)
C18_NegationOnlyFirst ==
    (call.fn = "Pattern::parse" /\ ret # None /\ ret[1].ok) =>
        \A i \in 2..Len(ret[1].value) : ret[1].value[i] # Negation

(* C20: in every built collection the record at index 0 is the root, with  *)
(* the empty name, the empty path and no parent; every other record has a  *)
(* parent index strictly less than its own index, which is the index of    *)
(* the record of the table that directly contains it in the document.      *)
C20_ParentIndex ==
    pc \in { "built", "emitted", "panicked" } =>
        LET fs == fields.fields
        IN  /\ fs # << >>
            /\ fs[1].name = ROOT /\ fs[1].path = ROOT /\ fs[1].parent = None
            /\ \A i \in 2..Len(fs) :
                  /\ fs[i].parent # None
                  /\ fs[i].parent[1] < i - 1
                  /\ LET container == fs[fs[i].parent[1] + 1]
                     IN  /\ is_table(container)
                         /\ \E key \in { TableKeys(container.value)[n] :
                                           n \in 1..Len(TableKeys(container.value)) } :
                                Child(container.value, key) = fs[i].value

\* a built collection with a leaf directly below the root and a leaf two
\* tables down, each filed under the record of its own table
C20_Witness ==
    /\ pc = "built"
    /\ \E i, j \in 2..Len(fields.fields) :
          /\ ~ is_table(fields.fields[i]) /\ fields.fields[i].parent = Some(0)
          /\ ~ is_table(fields.fields[j]) /\ fields.fields[j].parent[1] >= 2

(* C21: for every field of a built collection the effective-parent lookup  *)
(* (the field named by the second-to-last segment of the field's effective *)
(* module path, the root when there is none) finds a field of the          *)
(* collection, so generation never aborts on a missing parent.             *)
C21_ParentLookupSucceeds ==
    pc \in { "built", "emitted", "panicked" } =>
        /\ pc # "panicked"
        /\ \A i \in 1..Len(fields.fields) :
              LET found == get_relative_parent_of_field(fields, fields.fields[i])
              IN  /\ found # None
                  /\ \E j \in 1..Len(fields.fields) : fields.fields[j] = found[1]

\* s is what remains of t when some leading elements are removed
IsSuffix(s, t) ==
    /\ Len(s) <= Len(t)
    /\ SubSeq(t, Len(t) - Len(s) + 1, Len(t)) = s

(* C22: the relative path computed for a field is always a suffix of the   *)
(* field's absolute path: the absolute path with a leading prefix of       *)
(* segments removed.                                                       *)
C22_RelativePathIsSuffix ==
    pc = "built" =>
        \A i \in 1..Len(fields.fields) :
            fields.fields[i].relative_path # None =>
                IsSuffix(Segments(fields.fields[i].relative_path[1]),
                         Segments(fields.fields[i].path))

\* the iteration orders of the block's alias map
AliasOrders ==
    { order \in Arrangements({ source.aliases[i] : i \in 1..Len(source.aliases) },
                             Len(source.aliases)) :
        /\ Len(order) = Len(source.aliases)
        /\ \A i, j \in 1..Len(order) : order[i] = order[j] => i = j }

(* C23: the output of a block does not depend on the iteration order of    *)
(* the alias map: every order of the same bindings yields the same fields  *)
(* and the same output.                                                    *)
C23_AliasOrderUnobservable ==
    pc \in { "emitted", "panicked" } =>
        \A order \in AliasOrders :
            LET other == RootModule_build([source EXCEPT !.aliases = order], toml)
            IN  /\ other.fields = fields.fields
                /\ generate_panics(other) = (pc = "panicked")
                /\ pc = "emitted" =>
                      RootModule_to_tokens(source, other) = tokens

\* the value at a node of the document: the table or leaf its keys lead to
RECURSIVE NodeValue(_, _)
NodeValue(value, keys) ==
    IF keys = << >> THEN value
    ELSE NodeValue(Child(value, Head(keys)), Tail(keys))

(* C24: the document path stored on every non-root field is the dotted     *)
(* path of the field's keys exactly as the document spells them: dashes    *)
(* preserved in every segment and no alias substituted.                    *)
C24_DocumentPathAsSpelled ==
    pc = "built" =>
        \A keys \in DocNodes :
            \A i \in 2..Len(fields.fields) :
                fields.fields[i].value = NodeValue(toml, keys) =>
                    fields.fields[i].toml_path = Some(DocPath(keys))

\* how many constant declarations of a token stream carry a literal
RECURSIVE ConstCount(_, _)
ConstCount(items, literal) ==
    IF items = << >> THEN 0
    ELSE (IF Head(items).item = "const"
          THEN IF Head(items).val = << literal >> THEN 1 ELSE 0
          ELSE ConstCount(Head(items).body, literal))
         + ConstCount(Tail(items), literal)

(* C25: every leaf retained in a block's field collection produces exactly *)
(* one constant declaration in the block's output: none is dropped and     *)
(* none is emitted twice.                                                  *)
C25_OneConstantPerLeaf ==
    pc = "emitted" =>
        \A i \in 1..Len(fields.fields) :
            ~ is_table(fields.fields[i]) =>
                ConstCount(tokens,
                    convert_value_to_tokens(fields.fields[i].value)[2]) = 1

(* C26: within any one emitted namespace no two constant declarations have *)
(* the same identifier and no two nested namespaces have the same name.    *)
C26_NoDuplicateIdentifiers ==
    pc = "emitted" =>
        \A m \in ModsOf(tokens, << >>) :
            \A i, j \in 1..Len(m.body) :
                (/\ i < j
                 /\ m.body[i].item = m.body[j].item) =>
                    m.body[i].name # m.body[j].name

\* the indices (from 0) of the records of the tables that contain the
\* record at idx in the document, the root among them
RECURSIVE DocumentAncestors(_)
DocumentAncestors(idx) ==
    LET parent == fields.fields[idx + 1].parent
    IN  IF parent = None THEN {}
        ELSE { parent[1] } \cup DocumentAncestors(parent[1])

(* C27: for every field whose effective module path has at least two       *)
(* segments, the field chosen as its effective parent is a table that is   *)
(* an ancestor of the field in the document, never a same-named table of   *)
(* another branch.                                                         *)
C27_ParentIsAncestor ==
    pc = "built" =>
        \A i \in 1..Len(fields.fields) :
            Len(effective_module_path(fields.fields[i])) >= 2 =>
                LET found == get_relative_parent_of_field(fields, fields.fields[i])
                IN  /\ found # None
                    /\ is_table(found[1])
                    /\ index_of(fields, found[1])[1] \in DocumentAncestors(i - 1)

\* the index of the effective parent of the field at idx, where the lookup
\* finds one
ParentOf(idx) ==
    LET found == get_relative_parent_of_field(fields, fields.fields[idx + 1])
    IN  IF found = None THEN None ELSE index_of(fields, found[1])

\* the indices reached from idx in at most n steps of the effective-parent
\* relation
RECURSIVE ParentChain(_, _)
ParentChain(idx, n) ==
    IF n = 0 \/ ParentOf(idx) = None THEN {}
    ELSE { ParentOf(idx)[1] } \cup ParentChain(ParentOf(idx)[1], n - 1)

\* the fields generate_module is called on, in the order of the calls
RECURSIVE Visited(_)
RECURSIVE VisitedAll(_)
Visited(idx) ==
    << idx >> \o VisitedAll(SelectSeq(get_relative_children_of(fields, idx),
                                      is_table))

VisitedAll(submods) ==
    IF submods = << >> THEN << >>
    ELSE Visited(index_of(fields, Head(submods))[1]) \o VisitedAll(Tail(submods))

\* C28: the effective-parent relation of a built collection has no cycle
\* other than the root being its own parent, and the recursive
\* generate_module is called on each table at most once
C28_NoParentCycle ==
    /\ pc = "built" =>
          \A i \in 2..Len(fields.fields) :
              (i - 1) \notin ParentChain(i - 1, Len(fields.fields))
    /\ pc = "emitted" =>
          \A m, n \in 1..Len(Visited(0)) :
              Visited(0)[m] = Visited(0)[n] => m = n

\* the text of a comment line as written: the trimmed line without its
\* "#" and without one space after it
TextAfterHash(l) ==
    LET rest == Tail(Trim(l))
    IN  IF rest # << >> /\ Head(rest) = " " THEN Tail(rest) ELSE rest

(* C19: the text pushed onto the accumulator for a comment line is the     *)
(* trimmed line with the leading "#" removed and then exactly one leading  *)
(* space removed, if present; further indentation is preserved.            *)
C19_OneSpaceRemoved ==
    [][(/\ line_no' = line_no + 1
        /\ string_state = "None"
        /\ IsComment(lines[line_no'])) =>
           current_comments'
               = Append(current_comments, TextAfterHash(lines[line_no']))]_vars

----------------------------------------------------------------------------
(* RootModule::new: the reading of the document.  A file's content is      *)
(* written as the table it decodes to; the empty string decodes to the     *)
(* empty table, and a content the decoder rejects is Invalid.              *)

Invalid == [tag |-> "Invalid", v |-> << >>]

\* String::default(), decoded
EmptyContent == Table(<< >>)

\* the contents a candidate path can hold
Contents_of_files ==
    { d \in Documents :
        \/ Len(d.v) = 0
        \/ Len(d.v) = 1 /\ d.v[1].path[1] = << "a" >> }
    \cup { Invalid }

\* fs::read_to_string at the three candidate paths (the given path, below
\* the workspace root, below the manifest directory): Err or Ok(content)
Reads ==
    [1..3 -> { None } \cup { Some(content) : content \in Contents_of_files }]

\* the blocks before the document is read: no comments yet
Sources ==
    { [name |-> << "h" >>, inclusion_pats |-> inc, exclusion_pats |-> << >>,
       aliases |-> << >>, comments |-> << >>] : inc \in InclusionLists }

\* Result::unwrap_or
unwrap_or(result, default) == IF result = None THEN default ELSE result[1]

\* the content RootModule::new goes on with: the first read that succeeds,
\* and the default string when none does
toml_raw(reads) ==
    unwrap_or(reads[1], unwrap_or(reads[2], unwrap_or(reads[3], EmptyContent)))

ReadInit ==
    /\ pc = "new"
    /\ call \in { [fn |-> "RootModule::new", arg |-> reads] : reads \in Reads }
    /\ ret = None
    /\ source \in Sources
    /\ toml = EmptyContent
    /\ fields = TomlFields_new
    /\ tokens = << >>
    /\ HarvestIdle

\* RootModule::new: read, decode (a panic when the decoder rejects the
\* content), harvest the comments, build
RootModule_new ==
    /\ pc = "new"
    /\ call.fn = "RootModule::new"
    /\ LET raw == toml_raw(call.arg)
       IN  IF raw = Invalid
           THEN /\ pc' = "panicked"
                /\ UNCHANGED << toml, source, fields >>
           ELSE /\ toml' = raw
                /\ source' = [source EXCEPT !.comments = CommentsOf(raw)]
                /\ fields' = RootModule_build(source', raw)
                /\ pc' = "built"
    /\ UNCHANGED << tokens, harvest_vars, util_vars >>

ReadNext ==
    \/ RootModule_new
    \/ Emit

ReadSpec == ReadInit /\ [][ReadNext]_vars

\* no candidate path can be read
Unreadable ==
    /\ call.fn = "RootModule::new"
    /\ \A i \in 1..3 : call.arg[i] = None

(* C17: when the document can be read at none of the candidate paths,      *)
(* generation ends in a fatal error and no namespace is emitted; the       *)
(* unreadable document is never treated as an empty document.              *)
C17_UnreadableIsFatal ==
    (Unreadable /\ pc # "new") => (pc = "panicked" /\ tokens = << >>)

============================================================================
